---------------------------- MODULE Spec2Model ----------------------------
(***************************************************************************)
(* A model of jinjitsu (src/src/jinjitsu/__init__.py): one run of the      *)
(* command, from argparse's parse of the command line through the stages   *)
(* of execute() to the value run() returns.                                *)
(*                                                                         *)
(* Text is modelled as a sequence of atoms.  An atom is one character      *)
(* ("=", ".", ",", " ", "<", the backslash, the line feed, the carriage    *)
(* return, a letter) or a run of characters none of which any operation    *)
(* of the program looks at on its own ("html", "HTML", "out").  No atom    *)
(* is a concatenation of other atoms, so two sequences are the same text   *)
(* exactly when they are equal.                                            *)
(***************************************************************************)
EXTENDS Naturals, Sequences, FiniteSets, TLC

VARIABLES
    args,             \* the argparse Namespace (args.newline_sequence is rewritten by execute)
    pc,               \* the statement of run()/execute() that runs next
    autoescape_exts,  \* execute's local: the parsed --autoescape-exts
    module_payloads,  \* execute's local: one mapping per -m module
    vars_payloads,    \* execute's local: one mapping per --vars file
    cli_payloads,     \* execute's local: one (key, value) per -D pair
    context,          \* execute's local: the merged mapping, once built
    template_source,  \* execute's local: the text read from standard input
    template_name,    \* execute's local: the name the engine is asked for
    searchpaths,      \* execute's local: the loader's search path list
    env,              \* execute's local: the configured engine
    rendered,         \* execute's local: the rendered text
    standard_input,   \* what standard input holds: readable, and its text
    stdin_reads,      \* how many times standard input was read
    output,           \* the output destination: parents made, writes, text
    stderr,           \* the messages on the error stream, in order
    exc,              \* the exception execute raised: its class and message
    status,           \* "running", "returned", "raised" or "exited"
    retval,           \* run's return value or the exit status, once status # "running"
    trace,            \* history: the stages of execute that ran, in order
    argv              \* history: the command line as it was given

vars == <<args, pc, autoescape_exts, module_payloads, vars_payloads, cli_payloads,
          context, template_source, template_name, searchpaths, env, rendered,
          standard_input, stdin_reads, output, stderr, exc, status, retval, trace, argv>>

-----------------------------------------------------------------------------
(* Characters that the program tells apart.                                *)
BS == "\\"
LF == "\n"
CR == "\r"

\* str.lower(), atom by atom.
Lower(atom) ==
    CASE atom = "HTML" -> "html"
      [] atom = "TXT" -> "txt"
      [] atom = "JSON" -> "json"
      [] atom = "YAML" -> "yaml"
      [] atom = "L" -> "l"
      [] atom = "F" -> "f"
      [] atom = "C" -> "c"
      [] atom = "R" -> "r"
      [] OTHER -> atom

LowerStr(s) == [i \in DOMAIN s |-> Lower(s[i])]

\* str.find / str.rfind of a one-character needle, 1-based; 0 when absent.
Find(s, ch) ==
    IF \E i \in DOMAIN s : s[i] = ch
    THEN CHOOSE i \in DOMAIN s : s[i] = ch /\ \A j \in 1..(i - 1) : s[j] # ch
    ELSE 0

RFind(s, ch) ==
    IF \E i \in DOMAIN s : s[i] = ch
    THEN CHOOSE i \in DOMAIN s : s[i] = ch /\ \A j \in (i + 1)..Len(s) : s[j] # ch
    ELSE 0

\* str.lstrip(ch) for a one-character ch.
RECURSIVE LStrip(_, _)
LStrip(s, ch) ==
    IF s # <<>> /\ Head(s) = ch THEN LStrip(Tail(s), ch) ELSE s

RECURSIVE RStrip(_, _)
RStrip(s, ch) ==
    IF s # <<>> /\ s[Len(s)] = ch THEN RStrip(SubSeq(s, 1, Len(s) - 1), ch) ELSE s

\* str.strip() over the one whitespace atom of the model.
Strip(s) == RStrip(LStrip(s, " "), " ")

\* str.split(ch): the segments between the occurrences of ch, empty ones kept.
RECURSIVE Split(_, _)
Split(s, ch) ==
    LET i == Find(s, ch)
    IN  IF i = 0 THEN <<s>>
        ELSE <<SubSeq(s, 1, i - 1)>> \o Split(SubSeq(s, i + 1, Len(s)), ch)

EndsWith(s, t) ==
    /\ Len(t) <= Len(s)
    /\ SubSeq(s, Len(s) - Len(t) + 1, Len(s)) = t

\* pathlib's PurePath.suffix of a final path component.
Suffix(name) ==
    LET i == RFind(name, ".")
    IN  IF 1 < i /\ i < Len(name) THEN SubSeq(name, i, Len(name)) ELSE <<>>

Range(s) == {s[i] : i \in DOMAIN s}

SeqsUpTo(S, n) == UNION {[1..k -> S] : k \in 0..n}

-----------------------------------------------------------------------------
(* Module constants, lines 24-39.                                          *)
DEFAULT_AUTOESCAPE_EXTS == <<(<<"html">>), (<<"htm">>), (<<"xml">>), (<<"xhtml">>)>>

STDIN_TEMPLATE_BASENAME == <<"__stdin__">>

NEWLINE_TOKENS ==
    (<<BS, "n">> :> <<LF>>) @@ (<<BS, "r", BS, "n">> :> <<CR, LF>>) @@ (<<BS, "r">> :> <<CR>>)
    @@ (<<"L", "F">> :> <<LF>>) @@ (<<"C", "R", "L", "F">> :> <<CR, LF>>) @@ (<<"C", "R">> :> <<CR>>)
    @@ (<<"l", "f">> :> <<LF>>) @@ (<<"c", "r", "l", "f">> :> <<CR, LF>>) @@ (<<"c", "r">> :> <<CR>>)
    @@ (<<LF>> :> <<LF>>) @@ (<<CR, LF>> :> <<CR, LF>>) @@ (<<CR>> :> <<CR>>)

\* What a call gives: a value, or the exception it raises: its class
\* ("CLIError", or "Exception" for any other subclass of Exception) and its
\* message.
Ok(v) == [exc |-> "none", msg |-> "", val |-> v]
Raise(kind, msg) == [exc |-> kind, msg |-> msg, val |-> <<>>]

\* A context value: a Python str, or any other object (s is then its str()).
StrValue(s) == [kind |-> "str", s |-> s]
ObjValue(s) == [kind |-> "obj", s |-> s]

\* The empty dict.
EmptyMap == [k \in {} |-> StrValue(<<>>)]

\* dict.update(payload): every key of payload replaces the value held before.
Update(ctx, payload) ==
    [k \in (DOMAIN ctx) \cup (DOMAIN payload) |->
        IF k \in DOMAIN payload THEN payload[k] ELSE ctx[k]]


-----------------------------------------------------------------------------
(* The functions of the program.                                           *)

\* parse_key_value with str.rpartition("="): the split is at the last "=".
parse_key_value_rpartition(pair) ==
    LET i == RFind(pair, "=")
    IN  IF i = 0 THEN Raise("CLIError", "Expected KEY=VALUE for --var")
        ELSE IF SubSeq(pair, 1, i - 1) = <<>>
        THEN Raise("CLIError", "Variable key cannot be empty.")
        ELSE Ok([key |-> SubSeq(pair, 1, i - 1),
                 value |-> SubSeq(pair, i + 1, Len(pair))])

\* parse_key_value, lines 174-180: str.partition("=") splits at the first "=".
parse_key_value(pair) ==
    LET i == Find(pair, "=")
    IN  IF i = 0 THEN Raise("CLIError", "Expected KEY=VALUE for --var")
        ELSE IF SubSeq(pair, 1, i - 1) = <<>>
        THEN Raise("CLIError", "Variable key cannot be empty.")
        ELSE Ok([key |-> SubSeq(pair, 1, i - 1),
                 value |-> SubSeq(pair, i + 1, Len(pair))])

\* parse_autoescape_exts, lines 183-189.  raw is None ([given |-> FALSE]) or text.
parse_autoescape_exts(raw) ==
    IF ~raw.given THEN Ok(DEFAULT_AUTOESCAPE_EXTS)
    ELSE LET segments == Split(raw.text, ",")
             kept == SelectSeq(segments, LAMBDA segment : Strip(segment) # <<>>)
             parts == [i \in DOMAIN kept |-> LowerStr(Strip(kept[i]))]
         IN  IF parts = <<>>
             THEN Raise("CLIError", "--autoescape-exts requires at least one extension.")
             ELSE Ok(parts)

\* parse_newline_sequence with the token looked up whatever its case.
parse_newline_sequence_any_case(value) ==
    IF LowerStr(value) \in DOMAIN NEWLINE_TOKENS THEN Ok(NEWLINE_TOKENS[LowerStr(value)])
    ELSE Raise("CLIError", "--newline-sequence accepts one of")

\* parse_newline_sequence, lines 192-195.
parse_newline_sequence(value) ==
    IF value \in DOMAIN NEWLINE_TOKENS THEN Ok(NEWLINE_TOKENS[value])
    ELSE Raise("CLIError", "--newline-sequence accepts one of")

\* ensure_existing_file, lines 198-202.  A path is modelled together with what
\* the file system holds there: kind is "missing", "dir" or "file".
ensure_existing_file(path) ==
    IF path.kind = "missing" THEN Raise("CLIError", "not found")
    ELSE IF path.kind = "dir" THEN Raise("CLIError", "must be a file")
    ELSE Ok(<<>>)

\* ensure_existing_directory, lines 205-207.
ensure_existing_directory(path) ==
    IF path.kind = "missing" \/ path.kind # "dir"
    THEN Raise("CLIError", "Search path must be an existing directory")
    ELSE Ok(<<>>)

\* One turn of load_module_variables' loop, lines 213-225.  A module path
\* carries: importable (spec_from_file_location gave a spec with a loader),
\* raises (exec_module raised an Exception), payload (the module's __dict__).
load_module(m) ==
    IF ensure_existing_file(m).exc # "none" THEN ensure_existing_file(m)
    ELSE IF ~m.importable THEN Raise("CLIError", "Unable to import module")
    ELSE IF m.raises THEN Raise("CLIError", "Failed to load module")
    ELSE Ok(m.payload)

\* load_module_variables, lines 210-226: the first module that fails raises.
RECURSIVE load_module_variables(_)
load_module_variables(paths) ==
    IF paths = <<>> THEN Ok(<<>>)
    ELSE LET first == load_module(Head(paths))
         IN  IF first.exc # "none" THEN first
             ELSE LET rest == load_module_variables(Tail(paths))
                  IN  IF rest.exc # "none" THEN rest
                      ELSE Ok(<<first.val>> \o rest.val)

\* What the format's parser gives for the file's text.  A vars file carries
\* root: "error" (the parser raises its own exception), "nolib" (no YAML or
\* TOML package can be imported), "none", "other" (a list or a scalar) or
\* "mapping", and payload, the mapping.
ParsedRoot(f) ==
    IF f.root = "error" THEN Raise("Exception", "parser error")
    ELSE Ok([root |-> f.root, payload |-> f.payload])

\* _load_yaml, lines 229-246, and _load_toml, lines 249-272.
LoadWithOptionalLibrary(f) ==
    IF f.root = "nolib" THEN Raise("CLIError", "support requires") ELSE ParsedRoot(f)

\* _load_ini, lines 275-282: the sections, and always a "DEFAULT" entry.
load_ini(f) ==
    IF f.root = "error" THEN Raise("Exception", "parser error")
    ELSE Ok([root |-> "mapping",
             payload |-> Update(f.payload, <<"DEFAULT">> :> ObjValue(<<"{}">>))])

\* The extension dispatch of load_vars_file, lines 289-299.
DispatchByExtension(f) ==
    LET ext == LowerStr(Suffix(f.name))
    IN  IF ext = <<".", "json">> THEN ParsedRoot(f)
        ELSE IF ext \in {<<".", "yaml">>, <<".", "yml">>} THEN LoadWithOptionalLibrary(f)
        ELSE IF ext = <<".", "toml">> THEN LoadWithOptionalLibrary(f)
        ELSE IF ext = <<".", "ini">> THEN load_ini(f)
        ELSE Raise("CLIError", "Unsupported vars file type")

\* load_vars_file, lines 285-305.  readable: read_text(encoding="utf-8") gives
\* the text (it raises OSError or UnicodeDecodeError otherwise).
load_vars_file(f) ==
    IF ensure_existing_file(f).exc # "none" THEN ensure_existing_file(f)
    ELSE IF ~f.readable THEN Raise("Exception", "read error")
    ELSE LET data == DispatchByExtension(f)
         IN  IF data.exc # "none" THEN data
             ELSE IF data.val.root = "none"
             THEN Raise("CLIError", "is empty; expected a mapping.")
             ELSE IF data.val.root # "mapping"
             THEN Raise("CLIError", "must contain a mapping at the root.")
             ELSE Ok(data.val.payload)

\* [load_vars_file(path) for path in args.vars_files], line 402.
RECURSIVE LoadVarsFiles(_)
LoadVarsFiles(paths) ==
    IF paths = <<>> THEN Ok(<<>>)
    ELSE LET first == load_vars_file(Head(paths))
         IN  IF first.exc # "none" THEN first
             ELSE LET rest == LoadVarsFiles(Tail(paths))
                  IN  IF rest.exc # "none" THEN rest
                      ELSE Ok(<<first.val>> \o rest.val)

\* [parse_key_value(pair) for pair in args.cli_vars], line 403.
RECURSIVE ParseCliVars(_)
ParseCliVars(pairs) ==
    IF pairs = <<>> THEN Ok(<<>>)
    ELSE LET first == parse_key_value(Head(pairs))
         IN  IF first.exc # "none" THEN first
             ELSE LET rest == ParseCliVars(Tail(pairs))
                  IN  IF rest.exc # "none" THEN rest
                      ELSE Ok(<<first.val>> \o rest.val)

RECURSIVE UpdateAll(_, _)
UpdateAll(ctx, payloads) ==
    IF payloads = <<>> THEN ctx
    ELSE UpdateAll(Update(ctx, Head(payloads)), Tail(payloads))

RECURSIVE SetAll(_, _)
SetAll(ctx, pairs) ==
    IF pairs = <<>> THEN ctx
    ELSE SetAll(Update(ctx, Head(pairs).key :> StrValue(Head(pairs).value)), Tail(pairs))

\* assemble_context with the vars files applied before the modules.
assemble_context_files_first(module_vars, vars_files, cli_vars) ==
    SetAll(UpdateAll(UpdateAll(EmptyMap, vars_files), module_vars), cli_vars)

\* assemble_context, lines 308-320.
assemble_context(module_vars, vars_files, cli_vars) ==
    SetAll(UpdateAll(UpdateAll(EmptyMap, module_vars), vars_files), cli_vars)

\* str(Path.cwd()).
Cwd == <<"/cwd">>

\* The loop of resolve_search_paths, lines 327-330.  A search path entry
\* carries real, the text of Path.resolve(): two entries may resolve alike.
RECURSIVE ResolveExtraPaths(_)
ResolveExtraPaths(extra_paths) ==
    IF extra_paths = <<>> THEN Ok(<<>>)
    ELSE LET checked == ensure_existing_directory(Head(extra_paths))
         IN  IF checked.exc # "none" THEN checked
             ELSE LET rest == ResolveExtraPaths(Tail(extra_paths))
                  IN  IF rest.exc # "none" THEN rest
                      ELSE Ok(<<Head(extra_paths).real>> \o rest.val)

\* resolve_search_paths with the working directory appended whenever no
\* template directory is given, not only when the list is empty.
resolve_search_paths_cwd_always(template_dir, extra_paths) ==
    LET first == IF template_dir.given THEN <<template_dir.real>> ELSE <<>>
        rest == ResolveExtraPaths(extra_paths)
    IN  IF rest.exc # "none" THEN rest
        ELSE IF ~template_dir.given THEN Ok(rest.val \o <<Cwd>>)
        ELSE Ok(first \o rest.val)

\* resolve_search_paths, lines 323-333.  template_dir is None or a directory.
resolve_search_paths(template_dir, extra_paths) ==
    LET first == IF template_dir.given THEN <<template_dir.real>> ELSE <<>>
        rest == ResolveExtraPaths(extra_paths)
    IN  IF rest.exc # "none" THEN rest
        ELSE IF first \o rest.val = <<>> THEN Ok(<<Cwd>>)
        ELSE Ok(first \o rest.val)

\* determine_stdin_template_name without the .lower() of line 339.
determine_stdin_template_name_as_written(out, exts) ==
    LET candidate == LStrip(Suffix(out.name), ".")
        ext == IF out.given /\ out.name # <<>> /\ out.name # <<"-">>
                  /\ candidate # <<>> /\ candidate \in Range(exts)
               THEN candidate
               ELSE <<"txt">>
    IN  STDIN_TEMPLATE_BASENAME \o <<".">> \o ext

\* determine_stdin_template_name, lines 336-342.  output is None
\* ([given |-> FALSE]) or a path, of which name is the final component.
determine_stdin_template_name(out, exts) ==
    LET candidate == LowerStr(LStrip(Suffix(out.name), "."))
        ext == IF out.given /\ out.name # <<>> /\ out.name # <<"-">>
                  /\ candidate # <<>> /\ candidate \in Range(exts)
               THEN candidate
               ELSE <<"txt">>
    IN  STDIN_TEMPLATE_BASENAME \o <<".">> \o ext

\* jinja2.select_autoescape(enabled_extensions), as configured at line 361:
\* the lower-cased template name ends with "." + an enabled extension.
select_autoescape(enabled_extensions, name) ==
    \E i \in DOMAIN enabled_extensions :
        EndsWith(LowerStr(name), <<".">> \o LowerStr(LStrip(enabled_extensions[i], ".")))

\* build_environment, lines 355-376 (trim_blocks and lstrip_blocks act on
\* block tags only, and the templates of the model have none).
build_environment(loader, a, exts) ==
    [loader |-> loader,
     autoescape |-> IF a.autoescape = "smart" THEN "select"
                    ELSE IF a.autoescape = "on" THEN "on" ELSE "off",
     enabled_extensions |-> exts,
     undefined |-> a.undefined,
     keep_trailing_newline |-> a.keep_trailing_newline,
     newline_sequence |-> a.newline_sequence]

\* Whether the engine escapes the expressions of the template called name.
Autoescapes(e, name) ==
    IF e.autoescape = "select" THEN select_autoescape(e.enabled_extensions, name)
    ELSE e.autoescape = "on"

\* markupsafe.escape, over the one special character of the model.
EscapeStr(s) == [i \in DOMAIN s |-> IF s[i] = "<" THEN "&lt;" ELSE s[i]]

\* The engine on one piece of a template.  A template is a sequence of pieces:
\* "TEXT" (plain text), "NL" (a line break of the template source, which the
\* lexer rewrites to newline_sequence), "{{a}}" (the expression a) and "{%"
\* (a syntax error).
RenderPiece(piece, e, name, ctx) ==
    IF piece = "TEXT" THEN Ok(<<"text">>)
    ELSE IF piece = "NL" THEN Ok(e.newline_sequence)
    ELSE IF piece = "{%" THEN Raise("Exception", "template syntax error")
    ELSE IF <<"a">> \in DOMAIN ctx
         THEN Ok(IF Autoescapes(e, name) THEN EscapeStr(ctx[<<"a">>].s) ELSE ctx[<<"a">>].s)
    ELSE IF e.undefined = "strict" THEN Raise("Exception", "'a' is undefined")
    ELSE IF e.undefined = "debug" THEN Ok(<<"{{ a }}">>)
    ELSE Ok(<<>>)

RECURSIVE RenderPieces(_, _, _, _)
RenderPieces(source, e, name, ctx) ==
    IF source = <<>> THEN Ok(<<>>)
    ELSE LET first == RenderPiece(Head(source), e, name, ctx)
         IN  IF first.exc # "none" THEN first
             ELSE LET rest == RenderPieces(Tail(source), e, name, ctx)
                  IN  IF rest.exc # "none" THEN rest
                      ELSE Ok(first.val \o rest.val)

\* render_template, lines 379-381: the engine compiles the whole template
\* (a syntax error anywhere raises), drops one trailing line break of the
\* source unless keep_trailing_newline is set, and renders it.
render_template(e, name, ctx, source) ==
    LET kept == IF ~e.keep_trailing_newline /\ source # <<>> /\ source[Len(source)] = "NL"
                THEN SubSeq(source, 1, Len(source) - 1)
                ELSE source
    IN  IF "{%" \in Range(source) THEN Raise("Exception", "template syntax error")
        ELSE RenderPieces(kept, e, name, ctx)

\* write_output, lines 384-390.  args.output.outcome is what the destination
\* does: "ok", "mkdir_fails" or "write_fails".
write_output(out, text, dest) ==
    IF ~out.given \/ out.name = <<"-">>
    THEN IF out.outcome = "ok"
         THEN Ok([dest EXCEPT !.stdout_writes = @ + 1, !.text = text])
         ELSE Raise("Exception", "write error")
    ELSE IF out.outcome = "mkdir_fails" THEN Raise("Exception", "mkdir error")
    ELSE IF out.outcome = "write_fails" THEN Raise("Exception", "write error")
    ELSE Ok([dest EXCEPT !.parents_made = TRUE, !.file_writes = @ + 1, !.text = text])

\* What write_output leaves behind when it raises.
write_output_partial(out, dest) ==
    IF out.given /\ out.name # <<"-">> /\ out.outcome = "write_fails"
    THEN [dest EXCEPT !.parents_made = TRUE]
    ELSE dest

-----------------------------------------------------------------------------
(* run() and the stages of execute().  A stage that raises ends the run in  *)
(* the same step: the exception reaches run's handlers at once.             *)

locals == <<autoescape_exts, module_payloads, vars_payloads, cli_payloads, context,
            template_source, template_name, searchpaths, env, rendered>>

world == <<standard_input, stdin_reads, output>>

\* The stages of execute, in the order of lines 394-424.
Stages == <<"source_check", "autoescape_exts", "modules", "vars_files", "cli_vars",
            "merge", "newline", "acquire", "searchpaths", "environment", "render",
            "write">>

\* execute returned 0, lines 425 and 432.
Return0 ==
    /\ pc' = "done"
    /\ status' = "returned"
    /\ retval' = 0
    /\ UNCHANGED <<stderr, exc>>

\* The handlers of run with the generic clause falling off its end instead
\* of returning 1.
Handle_falls_through(r) ==
    /\ pc' = "done"
    /\ exc' = [class |-> r.exc, msg |-> r.msg]
    /\ IF r.exc = "CLIError"
       THEN /\ stderr' = Append(stderr, <<"error: ", r.msg>>)
            /\ status' = "returned"
            /\ retval' = 1
       ELSE IF args.traceback
       THEN /\ stderr' = stderr
            /\ status' = "raised"
            /\ retval' = retval
       ELSE /\ stderr' = Append(stderr, <<"error: ", r.msg>>)
            /\ status' = "returned"
            /\ retval' = 0

\* The handlers of run with --traceback looked at before the class of the
\* exception.
Handle_traceback_first(r) ==
    /\ pc' = "done"
    /\ exc' = [class |-> r.exc, msg |-> r.msg]
    /\ IF args.traceback
       THEN /\ stderr' = stderr
            /\ status' = "raised"
            /\ retval' = retval
       ELSE /\ stderr' = Append(stderr, <<"error: ", r.msg>>)
            /\ status' = "returned"
            /\ retval' = 1

\* The handlers of run, lines 433-440, for an exception raised by execute.
Handle(r) ==
    /\ pc' = "done"
    /\ exc' = [class |-> r.exc, msg |-> r.msg]
    /\ IF r.exc = "CLIError"
       THEN /\ stderr' = Append(stderr, <<"error: ", r.msg>>)
            /\ status' = "returned"
            /\ retval' = 1
       ELSE IF args.traceback
       THEN /\ stderr' = stderr
            /\ status' = "raised"
            /\ retval' = retval
       ELSE /\ stderr' = Append(stderr, <<"error: ", r.msg>>)
            /\ status' = "returned"
            /\ retval' = 1

\* The stage went through: on to the next one.
Goto(stage) ==
    /\ pc' = stage
    /\ UNCHANGED <<stderr, exc, status, retval>>

\* parser.parse_args(argv), line 430, outside run's try: a value outside an
\* option's choices (lines 117 and 128) makes argparse print its usage and
\* "jinjitsu: error: ..." and raise SystemExit(2).
ParseArgs ==
    /\ pc = "parse_args"
    /\ IF args.autoescape \in {"smart", "on", "off"}
          /\ args.undefined \in {"strict", "default", "debug", "chain"}
       THEN Goto("source_check")
       ELSE /\ pc' = "done"
            /\ stderr' = stderr \o <<(<<"usage: ">>),
                                      (<<"jinjitsu: error: ", "invalid choice">>)>>
            /\ status' = "exited"
            /\ retval' = 2
            /\ exc' = exc
    /\ UNCHANGED <<args, locals, world, trace, argv>>

\* Lines 394-397.
SourceCheck ==
    /\ pc = "source_check"
    /\ trace' = Append(trace, "source_check")
    /\ IF args.stdin /\ args.template.given
       THEN Handle(Raise("CLIError", "mutually exclusive"))
       ELSE IF ~args.stdin /\ ~args.template.given
       THEN Handle(Raise("CLIError", "Provide a TEMPLATE path or use --stdin."))
       ELSE Goto("autoescape_exts")
    /\ UNCHANGED <<args, locals, world, argv>>

\* Line 399.
ParseAutoescapeExts ==
    /\ pc = "autoescape_exts"
    /\ trace' = Append(trace, "autoescape_exts")
    /\ LET r == parse_autoescape_exts(args.autoescape_exts)
       IN  IF r.exc # "none"
           THEN Handle(r) /\ UNCHANGED autoescape_exts
           ELSE Goto("modules") /\ autoescape_exts' = r.val
    /\ UNCHANGED <<args, module_payloads, vars_payloads, cli_payloads, context,
                   template_source, template_name, searchpaths, env, rendered, world, argv>>

\* Line 401.
LoadModules ==
    /\ pc = "modules"
    /\ trace' = Append(trace, "modules")
    /\ LET r == load_module_variables(args.modules)
       IN  IF r.exc # "none"
           THEN Handle(r) /\ UNCHANGED module_payloads
           ELSE Goto("vars_files") /\ module_payloads' = r.val
    /\ UNCHANGED <<args, autoescape_exts, vars_payloads, cli_payloads, context,
                   template_source, template_name, searchpaths, env, rendered, world, argv>>

\* Line 402 with a vars file that cannot be loaded skipped.
LoadVars_keeps_going ==
    /\ pc = "vars_files"
    /\ trace' = Append(trace, "vars_files")
    /\ LET r == LoadVarsFiles(args.vars_files)
       IN  /\ Goto("cli_vars")
           /\ vars_payloads' = IF r.exc # "none" THEN <<>> ELSE r.val
    /\ UNCHANGED <<args, autoescape_exts, module_payloads, cli_payloads, context,
                   template_source, template_name, searchpaths, env, rendered, world, argv>>

\* Line 402.
LoadVars ==
    /\ pc = "vars_files"
    /\ trace' = Append(trace, "vars_files")
    /\ LET r == LoadVarsFiles(args.vars_files)
       IN  IF r.exc # "none"
           THEN Handle(r) /\ UNCHANGED vars_payloads
           ELSE Goto("cli_vars") /\ vars_payloads' = r.val
    /\ UNCHANGED <<args, autoescape_exts, module_payloads, cli_payloads, context,
                   template_source, template_name, searchpaths, env, rendered, world, argv>>

\* Line 403.
ParseVars ==
    /\ pc = "cli_vars"
    /\ trace' = Append(trace, "cli_vars")
    /\ LET r == ParseCliVars(args.cli_vars)
       IN  IF r.exc # "none"
           THEN Handle(r) /\ UNCHANGED cli_payloads
           ELSE Goto("merge") /\ cli_payloads' = r.val
    /\ UNCHANGED <<args, autoescape_exts, module_payloads, vars_payloads, context,
                   template_source, template_name, searchpaths, env, rendered, world, argv>>

\* Line 404.
AssembleContext ==
    /\ pc = "merge"
    /\ trace' = Append(trace, "merge")
    /\ context' = assemble_context(module_payloads, vars_payloads, cli_payloads)
    /\ Goto("newline")
    /\ UNCHANGED <<args, autoescape_exts, module_payloads, vars_payloads, cli_payloads,
                   template_source, template_name, searchpaths, env, rendered, world, argv>>

\* Line 405: the token in args is replaced by the characters it names.
ParseNewline ==
    /\ pc = "newline"
    /\ trace' = Append(trace, "newline")
    /\ LET r == parse_newline_sequence(args.newline_sequence)
       IN  IF r.exc # "none"
           THEN Handle(r) /\ UNCHANGED args
           ELSE Goto("acquire") /\ args' = [args EXCEPT !.newline_sequence = r.val]
    /\ UNCHANGED <<locals, world, argv>>

\* Lines 408-409 (standard input is read, the template is named) or lines
\* 415-417 and 420 (the template file is checked, its name taken).
AcquireTemplate ==
    /\ pc = "acquire"
    /\ trace' = Append(trace, "acquire")
    /\ IF args.stdin
       THEN /\ stdin_reads' = stdin_reads + 1
            /\ IF ~standard_input.readable
               THEN /\ Handle(Raise("Exception", "stdin read error"))
                    /\ UNCHANGED <<template_source, template_name>>
               ELSE /\ Goto("searchpaths")
                    /\ template_source' = standard_input.text
                    /\ template_name' =
                           determine_stdin_template_name(args.output, autoescape_exts)
       ELSE /\ stdin_reads' = stdin_reads
            /\ LET r == ensure_existing_file(args.template)
               IN  IF r.exc # "none"
                   THEN Handle(r) /\ UNCHANGED <<template_source, template_name>>
                   ELSE /\ Goto("searchpaths")
                        /\ template_source' = template_source
                        /\ template_name' = args.template.name
    /\ UNCHANGED <<args, autoescape_exts, module_payloads, vars_payloads, cli_payloads,
                   context, searchpaths, env, rendered, standard_input, output, argv>>

\* Line 410 or line 418.
ResolveSearchPaths ==
    /\ pc = "searchpaths"
    /\ trace' = Append(trace, "searchpaths")
    /\ LET template_dir == IF args.stdin THEN [given |-> FALSE, real |-> <<>>]
                           ELSE [given |-> TRUE, real |-> args.template.parent]
           r == resolve_search_paths(template_dir, args.searchpath)
       IN  IF r.exc # "none"
           THEN Handle(r) /\ UNCHANGED searchpaths
           ELSE Goto("environment") /\ searchpaths' = r.val
    /\ UNCHANGED <<args, autoescape_exts, module_payloads, vars_payloads, cli_payloads,
                   context, template_source, template_name, env, rendered, world, argv>>

\* Lines 411-413 (a ChoiceLoader: the text read from standard input, then the
\* search path) or line 419 (a FileSystemLoader), and line 422.
BuildEnvironment ==
    /\ pc = "environment"
    /\ trace' = Append(trace, "environment")
    /\ LET fs_loader == [kind |-> "filesystem", searchpath |-> searchpaths]
           loader == IF args.stdin THEN [fs_loader EXCEPT !.kind = "choice"]
                     ELSE fs_loader
       IN  env' = build_environment(loader, args, autoescape_exts)
    /\ Goto("render")
    /\ UNCHANGED <<args, autoescape_exts, module_payloads, vars_payloads, cli_payloads,
                   context, template_source, template_name, searchpaths, rendered, world, argv>>

\* Line 423.  The loader finds the text read from standard input under
\* template_name, or the template file in its own directory.
RenderTemplate ==
    /\ pc = "render"
    /\ trace' = Append(trace, "render")
    /\ LET source == IF args.stdin THEN template_source ELSE args.template.source
           r == render_template(env, template_name, context, source)
       IN  IF r.exc # "none"
           THEN Handle(r) /\ UNCHANGED rendered
           ELSE Goto("write") /\ rendered' = r.val
    /\ UNCHANGED <<args, autoescape_exts, module_payloads, vars_payloads, cli_payloads,
                   context, template_source, template_name, searchpaths, env, world, argv>>

\* Lines 424-425.
WriteOutput ==
    /\ pc = "write"
    /\ trace' = Append(trace, "write")
    /\ LET r == write_output(args.output, rendered, output)
       IN  IF r.exc # "none"
           THEN Handle(r) /\ output' = write_output_partial(args.output, output)
           ELSE Return0 /\ output' = r.val
    /\ UNCHANGED <<args, locals, standard_input, stdin_reads, argv>>

Next ==
    \/ ParseArgs
    \/ SourceCheck
    \/ ParseAutoescapeExts
    \/ LoadModules
    \/ LoadVars
    \/ ParseVars
    \/ AssembleContext
    \/ ParseNewline
    \/ AcquireTemplate
    \/ ResolveSearchPaths
    \/ BuildEnvironment
    \/ RenderTemplate
    \/ WriteOutput

-----------------------------------------------------------------------------
(* The state when run() is entered.                                        *)

NothingWritten ==
    [parents_made |-> FALSE, file_writes |-> 0, stdout_writes |-> 0, text |-> <<>>]

NoEnvironment ==
    [loader |-> [kind |-> "none", searchpath |-> <<>>], autoescape |-> "off", enabled_extensions |-> <<>>,
     undefined |-> "strict", keep_trailing_newline |-> FALSE, newline_sequence |-> <<>>]

Start ==
    /\ pc = "parse_args"
    /\ autoescape_exts = <<>>
    /\ module_payloads = <<>>
    /\ vars_payloads = <<>>
    /\ cli_payloads = <<>>
    /\ context = EmptyMap
    /\ template_source = <<>>
    /\ template_name = <<>>
    /\ searchpaths = <<>>
    /\ env = NoEnvironment
    /\ rendered = <<>>
    /\ stdin_reads = 0
    /\ output = NothingWritten
    /\ stderr = <<>>
    /\ exc = [class |-> "none", msg |-> ""]
    /\ status = "running"
    /\ retval = 0
    /\ trace = <<>>
    /\ argv = args

-----------------------------------------------------------------------------
(* Command lines and file systems the runs are checked on.                 *)

NoText == [given |-> FALSE, text |-> <<>>]
Text(s) == [given |-> TRUE, text |-> s]

\* A module file, and what importing it gives.
ModuleFile(stem, kind, importable, raises, payload) ==
    [name |-> <<stem, ".", "py">>, kind |-> kind, importable |-> importable,
     raises |-> raises, payload |-> payload]

\* A variables file, and what reading and parsing it gives.
VarsFile(name, kind, readable, root, payload) ==
    [name |-> name, kind |-> kind, readable |-> readable, root |-> root,
     payload |-> payload]

\* A template path: no positional argument, or a file name in a directory.
NoTemplate ==
    [given |-> FALSE, name |-> <<>>, kind |-> "missing", parent |-> <<>>,
     source |-> <<>>]
TemplateFile(name, kind, parent, source) ==
    [given |-> TRUE, name |-> name, kind |-> kind, parent |-> parent,
     source |-> source]

\* A --searchpath entry.
SearchDir(raw, kind, real) == [raw |-> raw, kind |-> kind, real |-> real]

\* The --output option.
NoOutput(outcome) == [given |-> FALSE, name |-> <<>>, outcome |-> outcome]
Output(name, outcome) == [given |-> TRUE, name |-> name, outcome |-> outcome]

ExtrasPy ==
    ModuleFile("extras", "file", TRUE, FALSE,
               (<<"n">> :> ObjValue(<<"42">>)) @@ (<<"m">> :> StrValue(<<"from-module">>)))
BrokenPy == ModuleFile("broken", "file", TRUE, TRUE, EmptyMap)

VarsJson ==
    VarsFile(<<"vars", ".", "json">>, "file", TRUE, "mapping",
             <<"m">> :> StrValue(<<"from-file">>))
DataBin == VarsFile(<<"data", ".", "bin">>, "file", TRUE, "mapping", EmptyMap)
BadJson == VarsFile(<<"bad", ".", "json">>, "file", TRUE, "error", EmptyMap)
ImagePng == VarsFile(<<"image", ".", "png">>, "file", FALSE, "error", EmptyMap)
NoSuchVars == VarsFile(<<"gone", ".", "json">>, "missing", FALSE, "error", EmptyMap)

PageHtml == TemplateFile(<<"page", ".", "html">>, "file", <<"/site">>, <<"{{a}}", "NL">>)
NoSuchTemplate == TemplateFile(<<"nope", ".", "txt">>, "missing", <<"/site">>, <<>>)

Includes == SearchDir(<<"includes">>, "dir", <<"/cwd/includes">>)
NoSuchDir == SearchDir(<<"nodir">>, "missing", <<"/cwd/nodir">>)

\* jinjitsu --stdin -D 'a=<' -o out.html: every stage goes through.
DefaultArgs ==
    [traceback |-> FALSE, stdin |-> TRUE, template |-> NoTemplate,
     autoescape |-> "smart", autoescape_exts |-> NoText, undefined |-> "strict",
     modules |-> <<>>, vars_files |-> <<>>, cli_vars |-> <<(<<"a", "=", "<">>)>>,
     keep_trailing_newline |-> FALSE, newline_sequence |-> <<BS, "n">>,
     searchpath |-> <<>>,
     output |-> Output(<<"out", ".", "html">>, "ok")]

DefaultInput == [readable |-> TRUE, text |-> <<"TEXT", "NL", "{{a}}", "NL">>]

\* Command lines argparse accepts, in which every stage of execute can fail.
AcceptedArgs ==
    [traceback : BOOLEAN,
     stdin : BOOLEAN,
     template : {NoTemplate, PageHtml, NoSuchTemplate},
     autoescape : {"smart"},
     autoescape_exts : {NoText, Text(<<",">>)},
     undefined : {"strict", "default"},
     modules : {<<ExtrasPy>>, <<BrokenPy>>},
     vars_files : {<<VarsJson>>, <<DataBin>>, <<BadJson>>, <<ImagePng>>, <<NoSuchVars>>},
     cli_vars : {<<(<<"a", "=", "<">>)>>, <<(<<"b", "=", "<">>)>>, <<(<<"a">>)>>},
     keep_trailing_newline : {FALSE},
     newline_sequence : {<<BS, "n">>, <<"L", "f">>},
     searchpath : {<<Includes>>, <<NoSuchDir>>},
     output : {NoOutput("ok"), Output(<<"out", ".", "html">>, "ok"),
               Output(<<"out", ".", "html">>, "write_fails")}]

\* Command lines argparse rejects: a value outside an option's choices.
RejectedArgs ==
    {[DefaultArgs EXCEPT !.autoescape = choices[1], !.undefined = choices[2],
                         !.traceback = tb, !.cli_vars = pairs] :
        choices \in {<<"bogus", "strict">>, <<"smart", "bogus">>, <<"bogus", "bogus">>},
        tb \in BOOLEAN,
        pairs \in {<<(<<"a", "=", "<">>)>>, <<(<<"a">>)>>}}

Init ==
    /\ args \in AcceptedArgs \cup RejectedArgs
    /\ standard_input \in {DefaultInput, [readable |-> FALSE, text |-> <<>>]}
    /\ Start

Spec == Init /\ [][Next]_vars

-----------------------------------------------------------------------------
(* Runs that differ in their variable sources only: up to MaxPayloads       *)
(* modules, up to MaxPayloads vars files and up to MaxPairs -D pairs, over  *)
(* the keys a and b.  A dict value is written as the text of its items.     *)
MaxPayloads == 2
MaxPairs == 2

CtxModules ==
    {ModuleFile("one", "file", TRUE, FALSE,
                (<<"a">> :> ObjValue(<<"{x: 1}">>)) @@ (<<"b">> :> StrValue(<<"m1">>))),
     ModuleFile("two", "file", TRUE, FALSE, <<"a">> :> StrValue(<<"m2">>))}

CtxVarsFiles ==
    {VarsFile(<<"one", ".", "json">>, "file", TRUE, "mapping",
              <<"a">> :> ObjValue(<<"{y: 2}">>)),
     VarsFile(<<"two", ".", "yaml">>, "file", TRUE, "mapping",
              (<<"a">> :> StrValue(<<"f2">>)) @@ (<<"b">> :> ObjValue(<<"[]">>))),
     VarsFile(<<"none", ".", "json">>, "file", TRUE, "mapping", EmptyMap)}

CtxPairs == {<<"a", "=", "x">>, <<"a", "=">>, <<"b", "=", "x", "=", "y">>}

InitCtx ==
    /\ args \in {[DefaultArgs EXCEPT !.modules = ms, !.vars_files = fs, !.cli_vars = ps] :
                    ms \in SeqsUpTo(CtxModules, MaxPayloads),
                    fs \in SeqsUpTo(CtxVarsFiles, MaxPayloads),
                    ps \in SeqsUpTo(CtxPairs, MaxPairs)}
    /\ standard_input = DefaultInput
    /\ Start

SpecCtx == InitCtx /\ [][Next]_vars

-----------------------------------------------------------------------------
(* Runs that differ in their -D pairs only: every text of up to MaxPairLen  *)
(* atoms over a letter k, "=" and a letter v, alone, after a good pair and  *)
(* before one.                                                              *)
MaxPairLen == 4

KVPairs == SeqsUpTo({"k", "=", "v"}, MaxPairLen)

GoodPair == <<"a", "=", "<">>

InitKV ==
    /\ args \in {[DefaultArgs EXCEPT !.cli_vars = ps, !.undefined = "default"] :
                    ps \in UNION {{<<pair>>, <<GoodPair, pair>>, <<pair, GoodPair>>} :
                                     pair \in KVPairs}}
    /\ standard_input = DefaultInput
    /\ Start

SpecKV == InitKV /\ [][Next]_vars

-----------------------------------------------------------------------------
(* Runs that differ in the template source and the --searchpath entries:    *)
(* up to MaxSearchPaths entries, among them two names of one directory, the *)
(* working directory itself, a missing path and a file.                     *)
MaxSearchPaths == 2

IncludesLink == SearchDir(<<"link">>, "dir", <<"/cwd/includes">>)
Dot == SearchDir(<<".">>, "dir", Cwd)
NotesTxt == SearchDir(<<"notes", ".", "txt">>, "file", <<"/cwd/notes.txt">>)

PathDirs == {Includes, IncludesLink, Dot, NoSuchDir, NotesTxt}

InitPaths ==
    /\ args \in {[DefaultArgs EXCEPT !.stdin = source[1], !.template = source[2],
                                     !.searchpath = ps] :
                    source \in {<<TRUE, NoTemplate>>, <<FALSE, PageHtml>>,
                                <<FALSE, NoSuchTemplate>>},
                    ps \in SeqsUpTo(PathDirs, MaxSearchPaths)}
    /\ standard_input = DefaultInput
    /\ Start

SpecPaths == InitPaths /\ [][Next]_vars

-----------------------------------------------------------------------------
(* Runs on a template read from standard input that differ in the escaping  *)
(* policy, the --autoescape-exts text (up to MaxExtsLen atoms) and the      *)
(* --output name (up to MaxNameLen atoms, not all of them dots).            *)
MaxExtsLen == 3
MaxNameLen == 3

ExtsTexts ==
    SeqsUpTo({"html", "TXT", ","}, MaxExtsLen)
        \cup {<<" ", "TXT", " ", ",", "html">>, <<".", "html">>, <<"xml", ",", ",">>}

OutputNames ==
    {name \in SeqsUpTo({".", "HTML", "txt"}, MaxNameLen) : Range(name) \ {"."} # {}}

InitAuto ==
    /\ args \in {[DefaultArgs EXCEPT !.autoescape = mode, !.autoescape_exts = exts,
                                     !.output = out] :
                    mode \in {"smart", "on", "off"},
                    exts \in {NoText} \cup {Text(s) : s \in ExtsTexts},
                    out \in {NoOutput("ok"), Output(<<"-">>, "ok")}
                              \cup {Output(name, "ok") : name \in OutputNames}}
    /\ standard_input = DefaultInput
    /\ Start

SpecAuto == InitAuto /\ [][Next]_vars

-----------------------------------------------------------------------------
(* Runs that differ in the --newline-sequence token (every text of up to    *)
(* MaxTokenLen characters over the characters of the table, the tokens of   *)
(* the table and some texts one character away from them), in               *)
(* --keep-trailing-newline and in the value of a, with a line feed or not.  *)
MaxTokenLen == 2

NewlineCharacters == {BS, "n", "r", LF, CR, "L", "F", "C", "R", "l", "f", "c"}

NewlineTokens ==
    SeqsUpTo(NewlineCharacters, MaxTokenLen)
        \cup DOMAIN NEWLINE_TOKENS
        \cup {<<"C", "R", "l", "f">>, <<"C", "r", "L", "F">>, <<BS, "r", BS, "n", LF>>,
              <<BS, "n", BS, "r">>, <<" ", BS, "n">>, <<CR, LF, LF>>}

InitNL ==
    /\ args \in {[DefaultArgs EXCEPT !.newline_sequence = token, !.autoescape = "off",
                                     !.keep_trailing_newline = keep,
                                     !.cli_vars = <<(<<"a", "=">> \o value)>>] :
                    token \in NewlineTokens,
                    keep \in BOOLEAN,
                    value \in {<<"x">>, <<"x", LF, "y">>}}
    /\ standard_input = DefaultInput
    /\ Start

SpecNL == InitNL /\ [][Next]_vars

-----------------------------------------------------------------------------
(* What the command line asks for, stage by stage: each stage of execute    *)
(* taken on its own, on the command line as given.                          *)

ParserAccepts ==
    /\ argv.autoescape \in {"smart", "on", "off"}
    /\ argv.undefined \in {"strict", "default", "debug", "chain"}

Class(r) == [class |-> r.exc, msg |-> r.msg]

ExpectedEnvironment ==
    build_environment(
        [kind |-> "any", searchpath |-> <<>>],
        [argv EXCEPT !.newline_sequence = parse_newline_sequence(argv.newline_sequence).val],
        parse_autoescape_exts(argv.autoescape_exts).val)

ExpectedTemplateName ==
    IF argv.stdin
    THEN determine_stdin_template_name(argv.output,
                                       parse_autoescape_exts(argv.autoescape_exts).val)
    ELSE argv.template.name

ExpectedContext ==
    assemble_context(load_module_variables(argv.modules).val,
                     LoadVarsFiles(argv.vars_files).val,
                     ParseCliVars(argv.cli_vars).val)

\* For each stage of Stages, whether it raises on this command line, and what.
StageOutcomes ==
    <<IF argv.stdin = argv.template.given
      THEN [class |-> "CLIError",
            msg |-> IF argv.stdin THEN "mutually exclusive"
                    ELSE "Provide a TEMPLATE path or use --stdin."]
      ELSE Class(Ok(<<>>)),
      Class(parse_autoescape_exts(argv.autoescape_exts)),
      Class(load_module_variables(argv.modules)),
      Class(LoadVarsFiles(argv.vars_files)),
      Class(ParseCliVars(argv.cli_vars)),
      Class(Ok(<<>>)),
      Class(parse_newline_sequence(argv.newline_sequence)),
      IF argv.stdin
      THEN IF standard_input.readable THEN Class(Ok(<<>>))
           ELSE [class |-> "Exception", msg |-> "stdin read error"]
      ELSE Class(ensure_existing_file(argv.template)),
      Class(ResolveExtraPaths(argv.searchpath)),
      Class(Ok(<<>>)),
      Class(render_template(ExpectedEnvironment, ExpectedTemplateName, ExpectedContext,
                            IF argv.stdin THEN standard_input.text
                            ELSE argv.template.source)),
      Class(write_output(argv.output, <<>>, NothingWritten))>>

\* The first stage of outcomes that raises, 0 when none does.
FirstOf(outcomes) ==
    LET failing == {i \in DOMAIN outcomes : outcomes[i].class # "none"}
    IN  IF failing = {} THEN 0
        ELSE CHOOSE i \in failing : \A j \in failing : i <= j

FirstFailure == FirstOf(StageOutcomes)

Finished == pc = "done"

OneErrorMessage == Len(stderr) = 1 /\ stderr[1][1] = "error: "

-----------------------------------------------------------------------------
(* C2.  As claimed: every run that fails without --traceback ends with     *)
(* exit code 1 and exactly one "error: ..." message on the error stream,   *)
(* a command line the parser rejects included; every run that succeeds     *)
(* ends with exit code 0.                                                  *)
C2_EveryFailureExitsWithOne ==
    Finished =>
        IF ParserAccepts /\ exc.class = "none"
        THEN status = "returned" /\ retval = 0
        ELSE ~argv.traceback => (retval = 1 /\ OneErrorMessage)

(* C2, amended.  A run whose command line argparse accepts and whose        *)
(* execute raises an Exception ends, without --traceback, with run          *)
(* returning 1 after exactly one "error: ..." message; a run in which no    *)
(* stage raises returns 0 and prints no error; a command line with a value  *)
(* outside an option's choices is rejected by argparse before execute is    *)
(* entered, with its usage and error message and exit status 2.             *)
C2_FailureExitCodes ==
    Finished =>
        IF ~ParserAccepts
        THEN /\ status = "exited" /\ retval = 2
             /\ trace = <<>>
             /\ Len(stderr) = 2 /\ stderr[2][1] = "jinjitsu: error: "
        ELSE IF FirstFailure = 0
        THEN status = "returned" /\ retval = 0 /\ stderr = <<>>
        ELSE ~argv.traceback =>
                 (status = "returned" /\ retval = 1 /\ OneErrorMessage)

\* A run without --traceback in which rendering raised.
C2_Witness ==
    /\ Finished /\ ~argv.traceback /\ ParserAccepts
    /\ FirstFailure = 11
    /\ retval = 1

(* C8.  The stages of execute run in the order of Stages; the first stage   *)
(* that raises determines the reported error and no later stage runs;       *)
(* standard input is read, and the output destination created or written,   *)
(* only when every earlier stage went through; output is written at most    *)
(* once.                                                                    *)
C8_StagesRunInOrder ==
    LET outcomes == StageOutcomes
        first == FirstOf(outcomes)
    IN  /\ Len(trace) <= Len(Stages)
        /\ \A i \in DOMAIN trace : trace[i] = Stages[i]
        /\ \A i \in DOMAIN trace : i < Len(trace) => outcomes[i].class = "none"
        /\ (Finished /\ status # "exited") =>
               IF first = 0
               THEN trace = Stages /\ exc.class = "none"
               ELSE /\ trace = SubSeq(Stages, 1, first)
                    /\ exc = outcomes[first]
                    /\ status = "returned" => stderr = <<(<<"error: ", exc.msg>>)>>
        /\ stdin_reads <= 1
        /\ stdin_reads = 1 =>
               (argv.stdin /\ \A i \in 1..7 : outcomes[i].class = "none")
        /\ output.file_writes + output.stdout_writes <= 1
        /\ (output.parents_made \/ output.file_writes + output.stdout_writes = 1) =>
               \A i \in 1..11 : outcomes[i].class = "none"

\* The newline token is rejected on a command line whose search path would
\* be rejected too: only the first is reported, and standard input is unread.
C8_Witness ==
    /\ Finished /\ argv.stdin
    /\ FirstFailure = 7
    /\ StageOutcomes[9].class # "none"
    /\ stdin_reads = 0

-----------------------------------------------------------------------------
\* The largest index of a non-empty set of indices.
Last(indices) == CHOOSE i \in indices : \A j \in indices : j <= i

ContextBuilt == Len(trace) >= 6

(* C1.  The context maps each key k to the value of the last -D pair whose  *)
(* key is k if there is one; otherwise to the value of k in the last vars   *)
(* file that defines k; otherwise to the value of k in the last module      *)
(* that defines k; it holds no other key.  The value is the source's value  *)
(* whole, and a key set by -D holds a string.  The sources are taken in     *)
(* command-line order.                                                      *)
C1_LastSourceWins ==
    ContextBuilt =>
        /\ module_payloads = [i \in DOMAIN argv.modules |-> argv.modules[i].payload]
        /\ Len(vars_payloads) = Len(argv.vars_files)
        /\ Len(cli_payloads) = Len(argv.cli_vars)
        /\ \A k \in (DOMAIN context) \cup {<<"a">>, <<"b">>, <<"DEFAULT">>} :
               LET pairs == {i \in DOMAIN cli_payloads : cli_payloads[i].key = k}
                   files == {i \in DOMAIN vars_payloads : k \in DOMAIN vars_payloads[i]}
                   modules == {i \in DOMAIN module_payloads :
                                  k \in DOMAIN module_payloads[i]}
               IN  IF pairs # {}
                   THEN /\ k \in DOMAIN context
                        /\ context[k] = StrValue(cli_payloads[Last(pairs)].value)
                        /\ context[k].kind = "str"
                   ELSE IF files # {}
                   THEN /\ k \in DOMAIN context
                        /\ context[k] = vars_payloads[Last(files)][k]
                   ELSE IF modules # {}
                   THEN /\ k \in DOMAIN context
                        /\ context[k] = module_payloads[Last(modules)][k]
                   ELSE k \notin DOMAIN context

\* Two modules, two vars files and two -D pairs all set a, and the dict of
\* the first vars file is replaced by the text of the last pair.
C1_Witness ==
    /\ ContextBuilt
    /\ Len(module_payloads) = 2 /\ Len(vars_payloads) = 2 /\ Len(cli_payloads) = 2
    /\ \A i \in 1..2 : <<"a">> \in DOMAIN module_payloads[i]
    /\ \A i \in 1..2 : <<"a">> \in DOMAIN vars_payloads[i]
    /\ vars_payloads[1][<<"a">>].kind = "obj"
    /\ \A i \in 1..2 : cli_payloads[i].key = <<"a">>
    /\ cli_payloads[1].value # cli_payloads[2].value
    /\ context[<<"a">>] = StrValue(cli_payloads[2].value)
    /\ <<"b">> \in DOMAIN context /\ context[<<"b">>].kind = "obj"

-----------------------------------------------------------------------------
(* C9.  parse_key_value splits a -D argument at its first "=" only: the key *)
(* is the non-empty text before it, the value everything after it, which    *)
(* may be empty and may hold "=" itself.  An argument without "=" and an    *)
(* argument with an empty key are rejected with a CLIError, and one         *)
(* rejected pair aborts the run whatever the other pairs are.               *)
C9_SplitAtFirstEquals ==
    Len(trace) >= 5 =>
        LET bad == {i \in DOMAIN argv.cli_vars :
                       \/ "=" \notin Range(argv.cli_vars[i])
                       \/ argv.cli_vars[i][1] = "="}
        IN  IF bad = {}
            THEN /\ Len(cli_payloads) = Len(argv.cli_vars)
                 /\ \A i \in DOMAIN cli_payloads :
                        /\ cli_payloads[i].key # <<>>
                        /\ "=" \notin Range(cli_payloads[i].key)
                        /\ cli_payloads[i].key \o <<"=">> \o cli_payloads[i].value
                               = argv.cli_vars[i]
            ELSE /\ Finished /\ trace = SubSeq(Stages, 1, 5)
                 /\ cli_payloads = <<>> /\ context = EmptyMap
                 /\ output = NothingWritten
                 /\ exc.class = "CLIError"
                 /\ status = "returned" /\ retval = 1
                 /\ LET first == argv.cli_vars[CHOOSE i \in bad : \A j \in bad : i <= j]
                    IN  exc.msg = IF "=" \notin Range(first)
                                  THEN "Expected KEY=VALUE for --var"
                                  ELSE "Variable key cannot be empty."

\* -D 'k==v' next to a good pair: the key is k, the value "=v", and the run
\* goes through.
C9_Witness ==
    /\ Finished /\ retval = 0
    /\ Len(cli_payloads) = 2
    /\ \E i \in DOMAIN cli_payloads :
           /\ cli_payloads[i].key = <<"k">>
           /\ cli_payloads[i].value = <<"=", "v">>
           /\ context[<<"k">>] = StrValue(<<"=", "v">>)

-----------------------------------------------------------------------------
\* The final extension of a file name, as pathlib takes it: what follows the
\* last dot, when that dot is neither the first nor the last character.
FinalExtension(name) ==
    LET dots == {i \in DOMAIN name : name[i] = "."}
    IN  IF dots = {} \/ Last(dots) = 1 \/ Last(dots) = Len(name) THEN <<>>
        ELSE LowerStr(SubSeq(name, Last(dots) + 1, Len(name)))

\* --output names a file whose final extension is on the configured list.
OutputHint ==
    /\ argv.output.given /\ argv.output.name # <<"-">>
    /\ FinalExtension(argv.output.name) # <<>>
    /\ FinalExtension(argv.output.name) \in Range(autoescape_exts)

Escaped == "&lt;" \in Range(output.text) /\ "<" \notin Range(output.text)
NotEscaped == "<" \in Range(output.text) /\ "&lt;" \notin Range(output.text)

SmartStdinRun == Finished /\ retval = 0 /\ argv.stdin /\ argv.autoescape = "smart"

(* C5.  A template read from standard input under the smart policy, with an *)
(* output path other than "-" whose lower-cased final extension is on the   *)
(* configured extension list, is named "__stdin__." followed by that        *)
(* extension, and the rendered output is HTML-escaped.                      *)
C5_OutputExtensionNamesStdinTemplate ==
    (SmartStdinRun /\ OutputHint) =>
        /\ template_name = <<"__stdin__", ".">> \o FinalExtension(argv.output.name)
        /\ Escaped

\* -o txt.HTML --autoescape-exts html: the template is __stdin__.html.
C5_Witness ==
    /\ SmartStdinRun /\ OutputHint
    /\ argv.output.name = <<"txt", ".", "HTML">>
    /\ template_name = <<"__stdin__", ".", "html">>
    /\ output.text = <<"text", LF, "&lt;">>

(* C6.  A template read from standard input under the smart policy without  *)
(* an output hint (no --output, --output "-", or an output path whose       *)
(* extension is empty or not on the configured extension list) is rendered  *)
(* unescaped, whatever --autoescape-exts is, a list that holds "txt"        *)
(* included.                                                                *)
C6_NoHintNoEscaping ==
    (SmartStdinRun /\ ~OutputHint) => NotEscaped

(* C4.  As claimed: parse_newline_sequence maps each token of the table to  *)
(* LF, CRLF or CR and rejects every other value with a CLIError, so the     *)
(* engine is given one of LF, CRLF, CR; and with the token \r\n every line  *)
(* break of the rendered output is CRLF.                                    *)
TokensOfLF == {<<BS, "n">>, <<"L", "F">>, <<"l", "f">>, <<LF>>}
TokensOfCRLF == {<<BS, "r", BS, "n">>, <<"C", "R", "L", "F">>, <<"c", "r", "l", "f">>, <<CR, LF>>}
TokensOfCR == {<<BS, "r">>, <<"C", "R">>, <<"c", "r">>, <<CR>>}

NewlineTableHolds ==
    /\ Len(trace) >= 7 =>
           LET token == argv.newline_sequence
           IN  IF token \in TokensOfLF THEN args.newline_sequence = <<LF>>
               ELSE IF token \in TokensOfCRLF THEN args.newline_sequence = <<CR, LF>>
               ELSE IF token \in TokensOfCR THEN args.newline_sequence = <<CR>>
               ELSE /\ Finished /\ trace = SubSeq(Stages, 1, 7)
                    /\ exc = [class |-> "CLIError", msg |-> "--newline-sequence accepts one of"]
                    /\ status = "returned" /\ retval = 1
                    /\ stdin_reads = 0
    /\ Len(trace) >= 10 =>
           env.newline_sequence \in {<<LF>>, <<CR, LF>>, <<CR>>}

EveryLineBreakIsCRLF(text) ==
    \A i \in DOMAIN text :
        /\ text[i] = LF => (i > 1 /\ text[i - 1] = CR)
        /\ text[i] = CR => (i < Len(text) /\ text[i + 1] = LF)

SupportedExtensions == {<<"json">>, <<"yaml">>, <<"yml">>, <<"toml">>, <<"ini">>}

C3_UnsupportedExtensionsRejected ==
    (Len(trace) >= 4 /\ Len(argv.vars_files) = 1) =>
        LET f == argv.vars_files[1]
        IN  /\ vars_payloads # <<>> => FinalExtension(f.name) \in SupportedExtensions
            /\ (f.kind = "file" /\ FinalExtension(f.name) \notin SupportedExtensions) =>
                   /\ Finished /\ exc.class = "CLIError"
                   /\ status = "returned" /\ retval = 1
                   /\ "merge" \notin Range(trace) /\ context = EmptyMap
            /\ (f.kind = "file" /\ f.readable /\ f.root \in {"none", "other"}
                 /\ FinalExtension(f.name) \in SupportedExtensions) =>
                   (Finished /\ exc.class = "CLIError")

=============================================================================
